---- MODULE Spec2Model ----
(***************************************************************************)
(* Model of src/app.py: the Streamlit CSV analysis tool for greenhouse     *)
(* sensor data.  The state is what one browser session holds: the uploaded *)
(* data frame, the two date inputs, where the script stopped on its last   *)
(* run, and what the last call of analyze_and_plot put on the page.        *)
(*                                                                         *)
(* Units.  Sensor readings are whole numbers (degrees C, percent).  A      *)
(* timestamp is a number of hours since day 0, 00:00.  VPD is kept in      *)
(* units of 0.0001 kPa, a compliance percentage in tenths of a percent,    *)
(* the 3-row rolling mean in sixths of a degree, a mean as <<sum, count>>  *)
(* and a standard deviation as the variance <<numerator, denominator>>.    *)
(***************************************************************************)
EXTENDS Integers, Sequences, FiniteSets

VARIABLES pc, df, start_date, end_date, called, out

vars == <<pc, df, start_date, end_date, called, out>>

\* ------------------------------------------------------------- bounds
MaxRows == 3
MaxDay == 2

\* ---------------------------------------------------------- constants
\* pandas' missing value (NaN / NaT): every comparison with it is false and
\* every arithmetic result involving it is missing.
NaN == -9999
HoursPerDay == 24

TsCol == "terminal_date"
SensorCols == {"temperature", "humidity", "underground_temperature",
               "underground_water_content"}

\* IDEAL_RANGES, in the dictionary's key order.
IdealOrder == <<"temperature", "humidity", "VPD", "underground_temperature",
                "underground_water_content">>

IDEAL_RANGES(col) ==
    CASE col = "temperature" -> <<20, 28>>
      [] col = "humidity" -> <<60, 80>>
      [] col = "VPD" -> <<6000, 12000>>
      [] col = "underground_temperature" -> <<18, 25>>
      [] col = "underground_water_content" -> <<30, 60>>

\* ------------------------------------------------------------ helpers
RECURSIVE SumSeq(_)
SumSeq(s) == IF s = <<>> THEN 0 ELSE Head(s) + SumSeq(Tail(s))

RECURSIVE MaxSeq(_)
MaxSeq(s) ==
    IF Len(s) = 1 THEN s[1]
    ELSE LET m == MaxSeq(Tail(s)) IN IF Head(s) > m THEN Head(s) ELSE m

RECURSIVE MinSeq(_)
MinSeq(s) ==
    IF Len(s) = 1 THEN s[1]
    ELSE LET m == MinSeq(Tail(s)) IN IF Head(s) < m THEN Head(s) ELSE m

\* A column of the frame, and its non-missing values, in row order.
Column(rows, col) == [i \in 1..Len(rows) |-> rows[i][col]]
NotNull(vals) == SelectSeq(vals, LAMBDA v : v # NaN)

\* .date() of a timestamp, and pd.to_datetime of a date (midnight of that day).
DateOf(ts) == ts \div HoursPerDay
ToDatetime(d) == d * HoursPerDay

\* ------------------------------------------------- analyze_and_plot
\* df[(terminal_date >= start_date) & (terminal_date <= end_date)]
FilterRows(rows, s, e) ==
    SelectSeq(rows, LAMBDA r : r[TsCol] # NaN /\ r[TsCol] >= s /\ r[TsCol] <= e)

\* if df_filtered.empty (and, as IsEmptyNever, the test left out).
IsEmptyNever(rows) == FALSE
IsEmpty(rows) == Len(rows) = 0

\* 0.6108 * exp(17.27 T / (T + 237.3)) in units of 0.000001 kPa, tabulated
\* on the temperatures the model feeds in.
Tetens(T) ==
    CASE T = 19 -> 2197393
      [] T = 20 -> 2338281
      [] T = 28 -> 3779930
      [] T = 29 -> 4005678

\* VPD = es - es * RH / 100, to the nearest 0.0001 kPa.
VPD(T, RH) ==
    IF T = NaN \/ RH = NaN THEN NaN
    ELSE (Tetens(T) * 100 - Tetens(T) * RH + 5000) \div 10000

Minus(a, b) == IF a = NaN \/ b = NaN THEN NaN ELSE a - b

\* Series.diff(): each row minus the row before it in the frame.
Diff(vals) ==
    [i \in 1..Len(vals) |-> IF i = 1 THEN NaN ELSE Minus(vals[i], vals[i - 1])]

\* Series.rolling(window=3, min_periods=1).mean(), in sixths.
Rolling3(vals) ==
    [i \in 1..Len(vals) |->
        LET lo == IF i > 2 THEN i - 2 ELSE 1
            w == NotNull(SubSeq(vals, lo, i))
        IN IF w = <<>> THEN NaN ELSE (SumSeq(w) * 6) \div Len(w)]

\* (col >= low) & (col <= high) (and, as InRangeOpenHigh, with col < high).
InRangeOpenHigh(v, low, high) == v # NaN /\ v >= low /\ v < high
InRange(v, low, high) == v # NaN /\ v >= low /\ v <= high

\* (temperature < low) | (temperature > high): false of a missing value
\* (OutOfRangeOrMissing compares the missing value like a number).
OutOfRangeOrMissing(v, low, high) == v < low \/ v > high
OutOfRange(v, low, high) == v # NaN /\ (v < low \/ v > high)

\* round(x, 1) of n/d, in tenths: round half to even.
RoundHalfEven(n, d) ==
    LET q == n \div d
        r == n % d
    IN IF 2 * r < d THEN q
       ELSE IF 2 * r > d THEN q + 1
       ELSE IF q % 2 = 0 THEN q ELSE q + 1

\* percent = round(in_range / total * 100, 1) if total else 0
Percent(in_range, total) ==
    IF total = 0 THEN 0 ELSE RoundHalfEven(in_range * 1000, total)

\* DataFrame.describe().loc[["mean", "max", "min", "std"]] of one column.
SumSqDiff(v) ==
    SumSeq([k \in 1..(Len(v) * Len(v)) |->
        LET i == ((k - 1) \div Len(v)) + 1
            j == ((k - 1) % Len(v)) + 1
        IN IF i < j THEN (v[i] - v[j]) * (v[i] - v[j]) ELSE 0])

Describe(vals) ==
    LET v == NotNull(vals)
        n == Len(v)
    IN [mean |-> IF n = 0 THEN NaN ELSE <<SumSeq(v), n>>,
        max |-> IF n = 0 THEN NaN ELSE MaxSeq(v),
        min |-> IF n = 0 THEN NaN ELSE MinSeq(v),
        std |-> IF n < 2 THEN NaN ELSE <<SumSqDiff(v), n * (n - 1)>>]

Compliance(vals, col) ==
    LET low == IDEAL_RANGES(col)[1]
        high == IDEAL_RANGES(col)[2]
        total == Len(NotNull(vals))
        in_range == Len(SelectSeq(vals, LAMBDA v : InRange(v, low, high)))
    IN [total |-> total, in_range |-> in_range,
        percent |-> Percent(in_range, total)]

\* The derived columns of lines 111-123, added to the filtered frame.
DerivedCols(cols) ==
    {"VPD"}
    \cup (IF "temperature" \in cols /\ "underground_temperature" \in cols
          THEN {"temp_diff"} ELSE {})
    \cup (IF "underground_water_content" \in cols
          THEN {"soil_moisture_change"} ELSE {})
    \cup (IF "temperature" \in cols THEN {"temperature_ma3"} ELSE {})

Derive(cols, rows) ==
    LET dc == DerivedCols(cols)
        change == Diff(Column(rows, "underground_water_content"))
        ma3 == Rolling3(Column(rows, "temperature"))
    IN [i \in 1..Len(rows) |->
        [terminal_date |-> rows[i].terminal_date,
         temperature |-> rows[i].temperature,
         humidity |-> rows[i].humidity,
         underground_temperature |-> rows[i].underground_temperature,
         underground_water_content |-> rows[i].underground_water_content,
         VPD |-> VPD(rows[i].temperature, rows[i].humidity),
         temp_diff |-> IF "temp_diff" \in dc
                       THEN Minus(rows[i].temperature,
                                  rows[i].underground_temperature)
                       ELSE NaN,
         soil_moisture_change |-> IF "soil_moisture_change" \in dc
                                  THEN change[i] ELSE NaN,
         temperature_ma3 |-> IF "temperature_ma3" \in dc THEN ma3[i] ELSE NaN]]

\* columns_to_describe: the keys of IDEAL_RANGES that are columns of the frame.
ColumnsToDescribe(cols) == SelectSeq(IdealOrder, LAMBDA c : c \in cols)

\* The pages written to output_analysis.pdf, in order.
Pages(cols) ==
    (IF "temperature" \in cols /\ "humidity" \in cols
     THEN <<"temperature", "humidity", "scatter", "dual">> ELSE <<>>)
    \o (IF "VPD" \in cols THEN <<"VPD">> ELSE <<>>)
    \o (IF "underground_temperature" \in cols
        THEN <<"underground_temperature">> ELSE <<>>)
    \o (IF "underground_water_content" \in cols
        THEN <<"underground_water_content">> ELSE <<>>)

Blank(status) ==
    [status |-> status, warning |-> FALSE, cols |-> {}, rows |-> <<>>,
     out_of_range_hours |-> NaN, described |-> <<>>, stats |-> <<>>,
     compliance |-> <<>>, pages |-> <<>>, pdf |-> FALSE]

NoOut == Blank("none")

\* What one call of analyze_and_plot(df, start_date, end_date) shows, or
\* "raised" when it ends in an exception (a KeyError of line 104, 112 or 113).
AnalyzeAndPlot(d, s, e) ==
    LET filtered == FilterRows(d.rows, s, e) IN
    IF TsCol \notin d.cols THEN Blank("raised")
    ELSE IF IsEmpty(filtered) THEN [Blank("no_data") EXCEPT !.warning = TRUE]
    ELSE IF "temperature" \notin d.cols \/ "humidity" \notin d.cols
    THEN Blank("raised")
    ELSE
      LET cols == d.cols \cup DerivedCols(d.cols)
          rows == Derive(d.cols, filtered)
          low == IDEAL_RANGES("temperature")[1]
          high == IDEAL_RANGES("temperature")[2]
          described == ColumnsToDescribe(cols)
          names == {described[i] : i \in 1..Len(described)}
      IN [status |-> "done", warning |-> FALSE, cols |-> cols, rows |-> rows,
          out_of_range_hours |->
              IF "temperature" \in cols
              THEN Len(SelectSeq(rows,
                       LAMBDA r : OutOfRange(r.temperature, low, high)))
              ELSE NaN,
          described |-> described,
          stats |-> [c \in names |-> Describe(Column(rows, c))],
          compliance |-> [c \in names |-> Compliance(Column(rows, c), c)],
          pages |-> Pages(cols), pdf |-> TRUE]

\* ------------------------------------------------------ uploaded files
Row(ts, t, h, ut, uwc) ==
    [terminal_date |-> ts, temperature |-> t, humidity |-> h,
     underground_temperature |-> ut, underground_water_content |-> uwc]

\* A CSV file with the columns `cols`: the values of the others are not there.
WithColumns(rows, cols) ==
    [cols |-> cols,
     rows |-> [i \in 1..Len(rows) |->
                 [c \in DOMAIN rows[i] |->
                    IF c \in cols THEN rows[i][c] ELSE NaN]]]

SeqsUpTo(S, n) == UNION {[1..k -> S] : k \in 1..n}

Days == 1..MaxDay
Timestamps == {ToDatetime(d) + h : d \in Days, h \in {0, 12}}

\* Files whose readings vary: all columns, every row stamped day 1, 00:00.
ValueRows ==
    {Row(ToDatetime(1), t, p[1], p[2], p[3]) :
        t \in {NaN, 19, 20, 28, 29},
        p \in {<<80, 18, 30>>, <<81, NaN, 61>>, <<60, 26, NaN>>}}
ValueFiles == {WithColumns(r, {TsCol} \cup SensorCols) : r \in SeqsUpTo(ValueRows, MaxRows)}

\* Files whose timestamps vary, in any row order.
TimeRows ==
    {Row(ts, p[1], 60, 18, p[2]) :
        ts \in Timestamps, p \in {<<20, 30>>, <<29, 45>>}}
TimeFiles == {WithColumns(r, {TsCol} \cup SensorCols) : r \in SeqsUpTo(TimeRows, MaxRows)}

\* Files with any subset of the columns but the empty one (a file without
\* columns is no CSV: pd.read_csv does not return a frame for it).
ColumnFiles ==
    {WithColumns([i \in 1..k |-> Row(ToDatetime(1), 20, 60, 18, 30 + i)], c) :
        k \in 1..MaxRows, c \in (SUBSET ({TsCol} \cup SensorCols)) \ {{}}}

Files == ValueFiles \cup TimeFiles \cup ColumnFiles

NoFile == [cols |-> {}, rows |-> <<>>]

\* ------------------------------------------------------ Streamlit UI
\* "terminal_date" in df.columns (and, as HasTimestampAlways, the test left out).
HasTimestampAlways(d) == TRUE
HasTimestamp(d) == TsCol \in d.cols

MinDate(d) == DateOf(MinSeq(Column(d.rows, TsCol)))
MaxDate(d) == DateOf(MaxSeq(Column(d.rows, TsCol)))

Init ==
    /\ pc = "idle"
    /\ df = NoFile
    /\ start_date = NaN
    /\ end_date = NaN
    /\ called = FALSE
    /\ out = NoOut

\* The labels of the two date inputs (lines 189, 190), as the code points of
\* the Python strings: "🗓️" is two lone surrogates and a
\* variation selector, not one emoji.
StartLabel == <<55357, 56787, 65039, 32, 38283, 22987, 26085>>
EndLabel == <<55357, 56787, 65039, 32, 32066, 20102, 26085>>

\* str.encode("utf-8"), which a widget's label goes through: a surrogate
\* code point (U+D800..U+DFFF) has no encoding and raises UnicodeEncodeError.
Encodable(label) ==
    \A i \in 1..Len(label) : label[i] < 55296 \/ label[i] > 57343

\* st.file_uploader hands over a file and the script runs on: to the error
\* of line 183, or to the date inputs of lines 189-190, which it gets past
\* only when their labels can be encoded.
Upload ==
    /\ pc = "idle"
    /\ \E d \in Files :
        /\ df' = d
        /\ IF ~HasTimestamp(d)
           THEN /\ pc' = "no_ts"
                /\ start_date' = NaN
                /\ end_date' = NaN
           ELSE IF Encodable(StartLabel) /\ Encodable(EndLabel)
           THEN /\ pc' = "form"
                /\ start_date' = MinDate(d)
                /\ end_date' = MaxDate(d)
           ELSE /\ pc' = "raised_189"
                /\ start_date' = NaN
                /\ end_date' = NaN
    /\ called' = FALSE
    /\ out' = NoOut

\* The user removes the file.
RemoveFile ==
    /\ pc # "idle"
    /\ pc' = "idle"
    /\ df' = NoFile
    /\ start_date' = NaN
    /\ end_date' = NaN
    /\ called' = FALSE
    /\ out' = NoOut

Next == Upload \/ RemoveFile

Spec == Init /\ [][Next]_vars

\* ------------------------------------- analyze_and_plot, called directly
\* A call of analyze_and_plot as the script makes it: a frame that has the
\* terminal_date column (line 182) and two chosen days, converted as line
\* 196 converts them: days from the first to the last day of the frame, the
\* start not after the end (line 192).
InitCall ==
    /\ pc = "call"
    /\ df \in {d \in Files : HasTimestamp(d)}
    /\ start_date \in Days
    /\ end_date \in Days
    /\ start_date <= end_date
    /\ MinDate(df) <= start_date
    /\ end_date <= MaxDate(df)
    /\ called = FALSE
    /\ out = NoOut

Call ==
    /\ pc = "call"
    /\ out' = AnalyzeAndPlot(df, ToDatetime(start_date), ToDatetime(end_date))
    /\ pc' = out'.status
    /\ called' = TRUE
    /\ UNCHANGED <<df, start_date, end_date>>

NextCall == Call

SpecCall == InitCall /\ [][NextCall]_vars

\* ------------------------------------------- lines 112-113 in binary64
\* The sign of the VPD that lines 112-113 compute in IEEE-754 double
\* precision.  A double is <<mantissa, exponent>>: the mantissa a 53-bit
\* whole number held as four limbs of 20 bits, least significant first, the
\* exponent counted from that of es.  Multiplying and dividing by a small
\* whole number are exact on the limbs, and each result is rounded to 53
\* bits, ties to even, as the hardware does.
LimbBase == 1048576

Two52 == <<0, 0, 4096, 0>>
Two53 == <<0, 0, 8192, 0>>

MulSmall(x, k) ==
    LET t1 == x[1] * k
        t2 == x[2] * k + (t1 \div LimbBase)
        t3 == x[3] * k + (t2 \div LimbBase)
        t4 == x[4] * k + (t3 \div LimbBase)
    IN <<t1 % LimbBase, t2 % LimbBase, t3 % LimbBase, t4>>

DivSmall(x, d) ==
    LET t4 == x[4]
        t3 == (t4 % d) * LimbBase + x[3]
        t2 == (t3 % d) * LimbBase + x[2]
        t1 == (t2 % d) * LimbBase + x[1]
    IN [q |-> <<t1 \div d, t2 \div d, t3 \div d, t4 \div d>>, r |-> t1 % d]

Less(x, y) ==
    \E i \in 1..4 : x[i] < y[i] /\ \A j \in (i + 1)..4 : x[j] = y[j]

Inc(x) ==
    IF x[1] + 1 < LimbBase THEN [x EXCEPT ![1] = x[1] + 1]
    ELSE IF x[2] + 1 < LimbBase THEN [x EXCEPT ![1] = 0, ![2] = x[2] + 1]
    ELSE IF x[3] + 1 < LimbBase
    THEN [x EXCEPT ![1] = 0, ![2] = 0, ![3] = x[3] + 1]
    ELSE <<0, 0, 0, x[4] + 1>>

\* q + r/d rounded to a whole mantissa, ties to even, at exponent e.
RoundNearestEven(q, r, d, e) ==
    LET up == 2 * r > d \/ (2 * r = d /\ q[1] % 2 = 1)
        m == IF up THEN Inc(q) ELSE q
    IN IF m = Two53 THEN [m |-> Two52, e |-> e + 1] ELSE [m |-> m, e |-> e]

\* a * k for a whole number k in 1..100 (a humidity reading).
FMul(a, k) ==
    LET p == MulSmall(a.m, k)
        s == CHOOSE s \in 0..7 :
                /\ Less(DivSmall(p, 2 ^ s).q, Two53)
                /\ \A u \in 0..(s - 1) : ~Less(DivSmall(p, 2 ^ u).q, Two53)
        d == DivSmall(p, 2 ^ s)
    IN RoundNearestEven(d.q, d.r, 2 ^ s, a.e + s)

\* a / 100
FDiv100(a) ==
    LET d7 == DivSmall(MulSmall(a.m, 128), 100)
        d6 == DivSmall(MulSmall(a.m, 64), 100)
    IN IF Less(d7.q, Two53)
       THEN RoundNearestEven(d7.q, d7.r, 100, a.e - 7)
       ELSE RoundNearestEven(d6.q, d6.r, 100, a.e - 6)

\* The sign of a - b for positive doubles a, b: the subtraction rounds, but
\* never across zero.
FSubSign(a, b) ==
    IF b.e > a.e THEN -1
    ELSE IF b.e < a.e THEN 1
    ELSE IF Less(a.m, b.m) THEN -1
    ELSE IF Less(b.m, a.m) THEN 1 ELSE 0

\* es = 0.6108 * exp(17.27 T / (T + 237.3)) as line 112 computes it, for a
\* temperature given in tenths of a degree: the mantissa of the double.
Tetens53(T10) ==
    CASE T10 = 190 -> <<281579, 274231, 4500, 0>>   \* 0x1.19442f3744bebp+1
      [] T10 = 200 -> <<777360, 838905, 4788, 0>>   \* 0x1.2b4cccf9bdc90p+1
      [] T10 = 225 -> <<394978, 3584, 5582, 0>>   \* 0x1.5ce00e00606e2p+1
      [] T10 = 230 -> <<182142, 763626, 5753, 0>>   \* 0x1.679ba6ea2c77ep+1
      [] T10 = 250 -> <<885751, 638336, 6487, 0>>   \* 0x1.9579bd80d83f7p+1
      [] T10 = 280 -> <<271073, 311831, 7741, 0>>   \* 0x1.e3d4c217422e1p+1
      [] T10 = 290 -> <<704852, 853396, 4101, 0>>   \* 0x1.005d0594ac154p+2
      [] T10 = 340 -> <<68752, 967264, 5446, 0>>   \* 0x1.546ec26010c90p+2

BitTemps == {190, 200, 225, 230, 250, 280, 290, 340}
Humidities == 0..100

\* One reading, before line 112.
InitBits ==
    /\ pc = "line_112"
    /\ \E t \in BitTemps, rh \in Humidities :
          df = [cols |-> {"temperature", "humidity"},
                rows |-> <<[temperature |-> t, humidity |-> rh]>>]
    /\ start_date = NaN
    /\ end_date = NaN
    /\ called = FALSE
    /\ out = NoOut

\* df_filtered["VPD"] = 0.6108 * np.exp(...)
Line112 ==
    /\ pc = "line_112"
    /\ pc' = "line_113"
    /\ out' = [NoOut EXCEPT
                 !.status = "es",
                 !.cols = {"VPD"},
                 !.rows = <<[es |-> [m |-> Tetens53(df.rows[1].temperature),
                                     e |-> 0]]>>]
    /\ called' = TRUE
    /\ UNCHANGED <<df, start_date, end_date>>

\* df_filtered["VPD"] -= df_filtered["VPD"] * df_filtered["humidity"] / 100
Line113 ==
    /\ pc = "line_113"
    /\ pc' = "vpd"
    /\ LET es == out.rows[1].es
           rh == df.rows[1].humidity
       IN out' = [out EXCEPT
                    !.status = "vpd",
                    !.rows = <<[es |-> es,
                                sign |-> IF rh = 0 THEN 1
                                         ELSE FSubSign(es, FDiv100(FMul(es, rh)))]>>]
    /\ UNCHANGED <<df, start_date, end_date, called>>

NextBits == Line112 \/ Line113

SpecBits == InitBits /\ [][NextBits]_vars

\* ------------------------------------------------------------- claims
\* The last press of the button is still what the page shows.
Acted == pc \in {"no_data", "raised", "done"}

\* The rows of the uploaded file whose timestamp lies in [start_date, end_date]
\* as analyze_and_plot receives them (the midnights of the two chosen days).
InRangeIdx ==
    {i \in 1..Len(df.rows) :
        /\ df.rows[i][TsCol] >= start_date * HoursPerDay
        /\ df.rows[i][TsCol] <= end_date * HoursPerDay}

\* The rows taken on a calendar day between the two chosen days.
OnChosenDays(r) ==
    /\ start_date <= r[TsCol] \div HoursPerDay
    /\ r[TsCol] \div HoursPerDay <= end_date

Abs(x) == IF x < 0 THEN 0 - x ELSE x

\* p (tenths of a percent) is k/n*100 rounded to one decimal place.
IsTenthsOf(p, k, n) == 2 * Abs(p * n - 1000 * k) <= n

InputOf(r) ==
    [c \in {TsCol} \cup SensorCols |-> r[c]]

DistinctTimes(rows) ==
    \A i, j \in 1..Len(rows) :
        i # j => rows[i][TsCol] # rows[j][TsCol]

\* C1 (as claimed): with the timestamp column and any subset of the sensor
\* columns, a non-empty filtered frame is analysed without an exception; a
\* derived quantity is in the output exactly when its input columns are all
\* there, and statistics and compliance cover the remaining metrics.
C1_MissingColumnsNeverFatal ==
    (Acted /\ TsCol \in df.cols /\ InRangeIdx # {}) =>
        /\ out.status = "done"
        /\ "VPD" \in out.cols
              <=> {"temperature", "humidity"} \subseteq df.cols
        /\ "temp_diff" \in out.cols
              <=> {"temperature", "underground_temperature"} \subseteq df.cols
        /\ "soil_moisture_change" \in out.cols
              <=> "underground_water_content" \in df.cols
        /\ DOMAIN out.stats = (SensorCols \cup {"VPD"}) \cap out.cols
        /\ DOMAIN out.compliance = DOMAIN out.stats

\* C2: when no record's timestamp lies in the chosen range, the call reports
\* "no data" and shows nothing else: no derived column, no statistics, no
\* compliance percentage, no chart and no PDF.
C2_EmptyRangeReported ==
    (Acted /\ InRangeIdx = {}) =>
        /\ pc = "no_data"
        /\ out.warning
        /\ out.cols = {} /\ out.rows = <<>>
        /\ out.stats = <<>> /\ out.compliance = <<>>
        /\ out.out_of_range_hours = NaN
        /\ out.pages = <<>> /\ ~out.pdf

C2_Witness ==
    /\ pc = "no_data"
    /\ out.warning
    /\ Len(df.rows) = 2
    /\ SensorCols \subseteq df.cols

\* C3: a file without the terminal_date column gets the error and nothing
\* else: no date input is offered, analyze_and_plot is not called, and no
\* output is shown.
C3_NoTimestampStops ==
    (df # NoFile /\ TsCol \notin df.cols) =>
        /\ pc = "no_ts"
        /\ start_date = NaN /\ end_date = NaN
        /\ ~called
        /\ out = NoOut

C3_Witness ==
    /\ pc = "no_ts"
    /\ Len(df.rows) > 1
    /\ df.cols = SensorCols

\* C4 (as claimed): the compliance percentage of a metric equals the number
\* of records in range (bounds inclusive) over the number of records with a
\* non-missing value, times 100, and is 0 when no value is non-missing.
C4_ComplianceExactRatio ==
    pc = "done" =>
        \A c \in DOMAIN out.compliance :
            LET some == {i \in 1..Len(out.rows) : out.rows[i][c] # NaN}
                good == {i \in some :
                            /\ IDEAL_RANGES(c)[1] <= out.rows[i][c]
                            /\ out.rows[i][c] <= IDEAL_RANGES(c)[2]}
                p == out.compliance[c].percent
            IN IF some = {} THEN p = 0
               ELSE p * Cardinality(some) = 1000 * Cardinality(good)

\* C4 (amended): the same ratio, rounded to one decimal place.
C4_ComplianceRounded ==
    pc = "done" =>
        /\ Len(out.rows) = Cardinality(InRangeIdx)
        /\ DOMAIN out.compliance = (SensorCols \cup {"VPD"}) \cap out.cols
        /\ \A c \in DOMAIN out.compliance :
            LET some == {i \in 1..Len(out.rows) : out.rows[i][c] # NaN}
                good == {i \in some :
                            /\ IDEAL_RANGES(c)[1] <= out.rows[i][c]
                            /\ out.rows[i][c] <= IDEAL_RANGES(c)[2]}
                p == out.compliance[c].percent
            IN IF some = {} THEN p = 0
               ELSE IsTenthsOf(p, Cardinality(good), Cardinality(some))

C4_Witness ==
    /\ pc = "done"
    /\ out.compliance["temperature"].total = 0
    /\ out.compliance["humidity"] = [total |-> 3, in_range |-> 1, percent |-> 333]
    /\ out.compliance["underground_temperature"].total = 1

\* C5 (as claimed): soil_moisture_change follows ascending timestamp order,
\* whatever the row order of the file: missing on the earliest filtered
\* record, and on every other record its water content minus that of the
\* record just before it in time.
C5_SoilMoistureChronological ==
    (pc = "done" /\ "soil_moisture_change" \in out.cols
                 /\ DistinctTimes(out.rows)) =>
        \A i \in 1..Len(out.rows) :
            LET earlier == {j \in 1..Len(out.rows) :
                               out.rows[j][TsCol] < out.rows[i][TsCol]}
            IN IF earlier = {}
               THEN out.rows[i].soil_moisture_change = NaN
               ELSE \E j \in earlier :
                     /\ \A k \in earlier :
                            out.rows[k][TsCol] <= out.rows[j][TsCol]
                     /\ out.rows[i].soil_moisture_change =
                            out.rows[i].underground_water_content
                            - out.rows[j].underground_water_content

\* C6 (as claimed): the result does not depend on the row order of the file:
\* every permutation of the same records (distinct timestamps), with the same
\* dates, gives the same statistics and compliance, and each record, found by
\* its timestamp, the same derived values.
C6_RowOrderIndependent ==
    (pc = "done" /\ DistinctTimes(df.rows)) =>
        \A p \in {q \in [1..Len(df.rows) -> 1..Len(df.rows)] :
                     \A a, b \in 1..Len(df.rows) : a # b => q[a] # q[b]} :
            LET other == AnalyzeAndPlot(
                    [df EXCEPT !.rows = [i \in 1..Len(df.rows) |-> df.rows[p[i]]]],
                    ToDatetime(start_date), ToDatetime(end_date))
            IN /\ other.stats = out.stats
               /\ other.compliance = out.compliance
               /\ \A i, j \in 1..Len(out.rows) :
                     other.rows[i][TsCol] = out.rows[j][TsCol]
                        => other.rows[i] = out.rows[j]

\* C7 (as claimed): the date filter is inclusive of both chosen days, so the
\* analysed records are exactly those taken on a day from start to end, and
\* with the default dates (earliest and latest day of the file) every record
\* is analysed and "no data" cannot happen.
C7_DateRangeInclusive ==
    (pc \in {"done", "no_data"} /\ start_date <= end_date) =>
        /\ [i \in 1..Len(out.rows) |-> InputOf(out.rows[i])]
               = SelectSeq(df.rows, OnChosenDays)
        /\ (start_date = MinDate(df) /\ end_date = MaxDate(df)) =>
               /\ pc = "done"
               /\ Len(out.rows) = Len(df.rows)

\* C8 (as claimed): for every temperature and every relative humidity from 0
\* to 100 the computed VPD is not negative, and at humidity 100 it is zero.
C8_VpdNonNegativeZeroAtSaturation ==
    pc = "vpd" =>
        /\ out.rows[1].sign >= 0
        /\ df.rows[1].humidity = 100 => out.rows[1].sign = 0

\* C9 (as claimed): the output holds a composite score, the percentage
\* (to one decimal place) of filtered records whose every configured metric
\* is in its inclusive range, a missing value counting as out of range.
C9_CompositeScore ==
    pc = "done" =>
        /\ "composite" \in DOMAIN out
        /\ IsTenthsOf(out.composite,
               Cardinality({i \in 1..Len(out.rows) :
                   \A c \in DOMAIN out.compliance :
                       /\ out.rows[i][c] # NaN
                       /\ IDEAL_RANGES(c)[1] <= out.rows[i][c]
                       /\ out.rows[i][c] <= IDEAL_RANGES(c)[2]}),
               Len(out.rows))

\* C10: the count of records with the temperature out of range plus the
\* in-range count behind the temperature compliance is the number of records
\* with a temperature; a record without one is in neither count.
C10_TemperatureCountsAgree ==
    pc = "done" =>
        /\ out.compliance["temperature"].total
              = Cardinality({i \in 1..Len(out.rows) :
                                out.rows[i].temperature # NaN})
        /\ out.out_of_range_hours + out.compliance["temperature"].in_range
              = out.compliance["temperature"].total

C10_Witness ==
    /\ pc = "done"
    /\ Len(out.rows) = 3
    /\ \E i \in 1..3 : out.rows[i].temperature = NaN
    /\ out.out_of_range_hours = 1
    /\ out.compliance["temperature"].in_range = 1

====
